---- MODULE Spec2Model ----
(***************************************************************************)
(* Model of the UAV deconfliction engine (src/src/deconfliction.py), the   *)
(* Drone/Waypoint data model (src/src/drone.py) and the coordinate bounds  *)
(* check (src/src/utils.py).                                               *)
(*                                                                         *)
(* Instants (datetime) are modelled as small integers; a timezone-aware    *)
(* datetime is the integer utc(t), far above every naive instant.          *)
(* Coordinates and the safety buffer are modelled as integers (metres).    *)
(***************************************************************************)
EXTENDS Integers, Sequences, FiniteSets, TLC

(***************************************************************************)
(* Bounds of the model.                                                    *)
(***************************************************************************)
MaxOps == 3          \* number of add_simulated_drone / validate_mission calls in a run
MaxBuffer == 2       \* safety_buffer is drawn from 0..MaxBuffer
MaxCapacity == 2     \* max_simulated_drones is drawn from 1..MaxCapacity
MaxCoord == 2        \* the point-conflict test is exercised on the grid (0..MaxCoord)^3
MaxTime == 2         \* stand-alone Drone constructions use instants 0..MaxTime
MaxWaypoints == 2    \* and waypoint lists of length 0..MaxWaypoints

(***************************************************************************)
(* Program constants.                                                      *)
(***************************************************************************)
MAX_XY == 10000
MAX_Z == 500

VARIABLES
    safety_buffer,          \* DeconflictionSystem.safety_buffer
    max_simulated_drones,   \* DeconflictionSystem.max_simulated_drones
    simulated_drones,       \* DeconflictionSystem.simulated_drones : id -> Drone
    spatial_index,          \* DeconflictionSystem.spatial_index : None or the KDTree's points
    time_index,             \* DeconflictionSystem.time_index : instant -> list of ids
    conflict_cache,         \* DeconflictionSystem.conflict_cache : key string -> cached value
    lastOp,                 \* the last call made on the engine, its argument and what it raised
    result,                 \* what the last call returned (a dictionary for validate_mission)
    repeated,               \* the last call is a validate_mission of the very drone that the
                            \* call right before it validated
    prevResult,             \* what that earlier call returned (when repeated)
    opCount,                \* number of calls made so far
    validations,            \* number of validate_mission calls made so far
    wp1, wp2,               \* arguments of a stand-alone _check_point_conflict call
    point_call,             \* whether that call was made, and its return value
    ctor_args,              \* arguments of a stand-alone Drone(...) construction
    ctor_out,               \* whether it was made, what it raised and the object built
    temporal_args,          \* the drones A, B of stand-alone _check_temporal_conflict calls
    temporal_out,           \* which of the calls (A, B) and (B, A) were made, their values
    explain_out,            \* get_conflict_explanation of the last result: whether it was
                            \* called, what it raised, the text, the dictionary afterwards
    spatial_args,           \* the drones (primary, S) of a stand-alone _check_spatial_conflict
    spatial_out,            \* whether that call was made, and the list it returned
    key_args,               \* two (kind, primary id, candidate id) triples of cache accesses
    key_out,                \* whether their key strings were built, and the two strings
    traj_args,              \* the drone of a stand-alone validate_trajectory call
    traj_out,               \* whether that call was made, and its return value
    threads                 \* two validate_mission calls running concurrently: for each
                            \* its primary, position, remaining candidates and locals

vars == <<safety_buffer, max_simulated_drones, simulated_drones, spatial_index,
          time_index, conflict_cache, lastOp, result, repeated, prevResult, opCount,
          validations, wp1, wp2, point_call, ctor_args, ctor_out, temporal_args,
          temporal_out, explain_out, spatial_args, spatial_out, key_args, key_out,
          traj_args, traj_out, threads>>

engine == <<simulated_drones, spatial_index, time_index, conflict_cache>>

config == <<safety_buffer, max_simulated_drones>>

spatial_call == <<spatial_args, spatial_out>>

key_call == <<key_args, key_out>>

traj_call == <<traj_args, traj_out>>

pure == <<wp1, wp2, point_call, ctor_args, ctor_out, temporal_args, temporal_out,
          spatial_call, key_call, traj_call, threads>>

history == <<lastOp, result, repeated, prevResult, opCount, validations>>

(***************************************************************************)
(* Data model: Waypoint and Drone (src/src/drone.py).                      *)
(***************************************************************************)
Waypoint(x, y, z, timestamp) == [x |-> x, y |-> y, z |-> z, timestamp |-> timestamp]

\* The class defines its own __init__, which @dataclass keeps; it stores the
\* four arguments and performs no check.
Drone(id, waypoints, start_time, end_time) ==
    [id |-> id, waypoints |-> waypoints, start_time |-> start_time, end_time |-> end_time]

Abs(n) == IF n < 0 THEN -n ELSE n

validate_coordinates(x, y, z) == Abs(x) <= MAX_XY /\ Abs(y) <= MAX_XY /\ Abs(z) <= MAX_Z

\* Drone.__post_init__ : TRUE when the body would raise ValueError.  Because
\* Drone defines __init__ itself, the dataclass machinery never calls it.
post_init_raises(d) ==
    \/ d.waypoints = <<>>
    \/ d.end_time <= d.start_time
    \/ \E i \in 1..Len(d.waypoints) :
          ~validate_coordinates(d.waypoints[i].x, d.waypoints[i].y, d.waypoints[i].z)

get_time_range(d) == <<d.start_time, d.end_time>>

\* Drone.validate_trajectory
validate_trajectory(d) ==
    IF \E i \in 1..(Len(d.waypoints) - 1) :
          d.waypoints[i].timestamp > d.waypoints[i + 1].timestamp
    THEN FALSE
    ELSE IF d.end_time - d.start_time <= 0 THEN FALSE
    ELSE TRUE

\* datetime(..., tzinfo=timezone.utc) at clock reading t; datetimes with and
\* without tzinfo can be stored side by side but neither compared (<=, max)
\* nor subtracted: Python raises TypeError
utc(t) == t + 1000

is_aware(t) == t >= utc(0)

Max(a, b) == IF a >= b THEN a ELSE b
Min(a, b) == IF a <= b THEN a ELSE b

(***************************************************************************)
(* The drones handed to the engine.  Every one of them is a value that     *)
(* Drone(...) returns; several violate what __post_init__ would reject.    *)
(***************************************************************************)
W(x) == Waypoint(x, 0, 0, 0)

Ids == {"a", "a_a", "b"}

Drones ==
    { Drone("a",   <<W(0)>>,        1, 2),
      Drone("a",   <<W(4)>>,        0, 1),
      Drone("a",   <<W(0), W(4)>>,  0, 3),
      Drone("a_a", <<W(0), W(1)>>,  1, 3),
      Drone("a_a", <<Waypoint(0, 0, MAX_Z + 1, 0)>>, 0, 1),
      Drone("b",   <<W(2)>>,        0, 3),
      Drone("b",   <<W(0)>>,        utc(0), utc(3)),
      Drone("b",   <<W(2)>>,        2, 1),
      Drone("b",   <<>>,            0, 3) }

NoDrone == Drone("", <<>>, 0, 0)

EmptyDict == [k \in {} |-> 0]

NoResult ==
    [status |-> "none", conflicts |-> <<>>,
     performance |-> [spatial_checks |-> 0, temporal_checks |-> 0,
                      cache_hits |-> 0, total_drones |-> 0]]

(***************************************************************************)
(* DeconflictionSystem._check_point_conflict                               *)
(***************************************************************************)
\* (n) ** 0.5 compared against an integral buffer: sqrt(n) < b iff
\* floor(sqrt(n)) < b, so the distance is carried as its integer part.
RECURSIVE isqrt_search(_, _, _)
isqrt_search(n, lo, hi) ==
    IF lo >= hi THEN lo
    ELSE LET mid == (lo + hi + 1) \div 2
         IN  IF mid <= n \div mid THEN isqrt_search(n, mid, hi)
             ELSE isqrt_search(n, lo, mid - 1)

ISqrt(n) == isqrt_search(n, 0, n)

\* variant: the comparison admits the tie
check_point_conflict_tie(buffer, a, b) ==
    LET dx == a.x - b.x
        dy == a.y - b.y
        dz == a.z - b.z
        distance == ISqrt(dx * dx + dy * dy + dz * dz)
    IN  distance <= buffer

check_point_conflict(buffer, a, b) ==
    LET dx == a.x - b.x
        dy == a.y - b.y
        dz == a.z - b.z
        distance == ISqrt(dx * dx + dy * dy + dz * dz)
    IN  distance < buffer

(***************************************************************************)
(* DeconflictionSystem._check_spatial_conflict                             *)
(* Returns the list and the cache as the call leaves it.                   *)
(***************************************************************************)
ConflictPoint(drone_id, point, type, severity) ==
    [drone_id |-> drone_id, point |-> point, type |-> type, severity |-> severity]

spatial_key(primary_drone, simulated_drone) ==
    "spatial_" \o primary_drone.id \o "_" \o simulated_drone.id

temporal_key(primary_drone, simulated_drone) ==
    "temporal_" \o primary_drone.id \o "_" \o simulated_drone.id

\* the two nested loops of lines 165-174, wp1-major, no early exit
RECURSIVE spatial_scan(_, _, _, _, _)
spatial_scan(buffer, primary_drone, simulated_drone, i, j) ==
    IF i > Len(primary_drone.waypoints) THEN <<>>
    ELSE IF j > Len(simulated_drone.waypoints)
         THEN spatial_scan(buffer, primary_drone, simulated_drone, i + 1, 1)
    ELSE LET a == primary_drone.waypoints[i]
             b == simulated_drone.waypoints[j]
             rest == spatial_scan(buffer, primary_drone, simulated_drone, i, j + 1)
         IN  IF check_point_conflict(buffer, a, b)
             THEN <<ConflictPoint(simulated_drone.id, <<a.x, a.y, a.z>>, "spatial", "high")>>
                  \o rest
             ELSE rest

\* variant: the list is cached before the scan has filled it
check_spatial_conflict_early(buffer, cache, primary_drone, simulated_drone) ==
    LET cache_key == spatial_key(primary_drone, simulated_drone)
    IN  IF cache_key \in DOMAIN cache
        THEN [value |-> cache[cache_key], cache |-> cache]
        ELSE LET conflicts == spatial_scan(buffer, primary_drone, simulated_drone, 1, 1)
             IN  [value |-> conflicts, cache |-> cache @@ (cache_key :> <<>>)]

\* variant: the scan stops at the first conflicting pair
check_spatial_conflict_first(buffer, cache, primary_drone, simulated_drone) ==
    LET cache_key == spatial_key(primary_drone, simulated_drone)
    IN  IF cache_key \in DOMAIN cache
        THEN [value |-> cache[cache_key], cache |-> cache]
        ELSE LET all == spatial_scan(buffer, primary_drone, simulated_drone, 1, 1)
                 conflicts == IF all = <<>> THEN <<>> ELSE <<all[1]>>
             IN  [value |-> conflicts, cache |-> cache @@ (cache_key :> conflicts)]

check_spatial_conflict(buffer, cache, primary_drone, simulated_drone) ==
    LET cache_key == spatial_key(primary_drone, simulated_drone)
    IN  IF cache_key \in DOMAIN cache
        THEN [value |-> cache[cache_key], cache |-> cache]
        ELSE LET conflicts == spatial_scan(buffer, primary_drone, simulated_drone, 1, 1)
             IN  [value |-> conflicts, cache |-> cache @@ (cache_key :> conflicts)]

(***************************************************************************)
(* DeconflictionSystem._check_temporal_conflict                            *)
(***************************************************************************)
\* variant: a window that ends exactly when the other starts counts as
\* overlapping in one direction only
temporal_overlap_touching(primary_drone, simulated_drone) ==
    LET t1 == get_time_range(primary_drone)
        t2 == get_time_range(simulated_drone)
    IN  ~(t1[2] < t2[1] \/ t1[1] >= t2[2])

temporal_overlap(primary_drone, simulated_drone) ==
    LET t1 == get_time_range(primary_drone)
        t2 == get_time_range(simulated_drone)
    IN  ~(t1[2] <= t2[1] \/ t1[1] >= t2[2])

\* variant: the value is stored under the keys of both orderings of the pair
check_temporal_conflict_both(cache, primary_drone, simulated_drone) ==
    LET cache_key == temporal_key(primary_drone, simulated_drone)
        reverse_key == temporal_key(simulated_drone, primary_drone)
    IN  IF cache_key \in DOMAIN cache
        THEN [value |-> cache[cache_key], cache |-> cache]
        ELSE LET conflict == temporal_overlap(primary_drone, simulated_drone)
             IN  [value |-> conflict,
                  cache |-> [k \in DOMAIN cache \cup {cache_key, reverse_key} |->
                                IF k \in DOMAIN cache THEN cache[k] ELSE conflict]]

\* variant: the interval test is always evaluated and its value stored,
\* replacing an existing entry
check_temporal_conflict_overwriting(cache, primary_drone, simulated_drone) ==
    LET cache_key == temporal_key(primary_drone, simulated_drone)
        conflict == temporal_overlap(primary_drone, simulated_drone)
    IN  [value |-> IF cache_key \in DOMAIN cache THEN cache[cache_key] ELSE conflict,
         cache |-> [k \in DOMAIN cache \cup {cache_key} |->
                       IF k = cache_key THEN conflict ELSE cache[k]]]

check_temporal_conflict(cache, primary_drone, simulated_drone) ==
    LET cache_key == temporal_key(primary_drone, simulated_drone)
    IN  IF cache_key \in DOMAIN cache
        THEN [value |-> cache[cache_key], cache |-> cache]
        ELSE LET conflict == temporal_overlap(primary_drone, simulated_drone)
             IN  [value |-> conflict, cache |-> cache @@ (cache_key :> conflict)]

(***************************************************************************)
(* DeconflictionSystem.validate_mission                                    *)
(***************************************************************************)
\* lines 73-77: ids bucketed under a boundary instant inside the primary's window
relevant_drones(index, primary_drone) ==
    LET t == get_time_range(primary_drone)
    IN  UNION { { index[time][k] : k \in 1..Len(index[time]) } :
                time \in { tm \in DOMAIN index : t[1] <= tm /\ tm <= t[2] } }

\* list(set(...)) iterates in an order the program does not control
Orders(S) ==
    { order \in [1..Cardinality(S) -> S] :
        \A i, j \in 1..Cardinality(S) : i # j => order[i] # order[j] }

conflict_entry(primary_drone, simulated_drone, drone_id, spatial_conflicts) ==
    [conflicting_drone |-> drone_id,
     conflict_locations |-> spatial_conflicts,
     time_overlap |-> [start |-> Max(primary_drone.start_time, simulated_drone.start_time),
                       end |-> Min(primary_drone.end_time, simulated_drone.end_time)]]

\* variant: the entry is appended without testing that the list is non-empty
validate_step_unguarded(buffer, drones, primary_drone, drone_id, acc) ==
    LET simulated_drone == drones[drone_id]
        r1 == [acc.results EXCEPT !.performance.temporal_checks = @ + 1]
        t == check_temporal_conflict(acc.cache, primary_drone, simulated_drone)
    IN  IF t.value
        THEN LET r2 == [r1 EXCEPT !.performance.spatial_checks = @ + 1]
                 s == check_spatial_conflict(buffer, t.cache, primary_drone, simulated_drone)
             IN  [results |-> [r2 EXCEPT !.status = "conflict",
                                         !.conflicts = Append(@,
                                             conflict_entry(primary_drone, simulated_drone,
                                                            drone_id, s.value))],
                  cache |-> s.cache]
        ELSE [results |-> r1, cache |-> t.cache]

\* variant: temporal_checks is counted only for candidates whose window does
\* not overlap
validate_step_miscounted(buffer, drones, primary_drone, drone_id, acc) ==
    LET simulated_drone == drones[drone_id]
        t == check_temporal_conflict(acc.cache, primary_drone, simulated_drone)
    IN  IF t.value
        THEN LET r2 == [acc.results EXCEPT !.performance.spatial_checks = @ + 1]
                 s == check_spatial_conflict(buffer, t.cache, primary_drone, simulated_drone)
             IN  IF s.value # <<>>
                 THEN [results |-> [r2 EXCEPT !.status = "conflict",
                                              !.conflicts = Append(@,
                                                  conflict_entry(primary_drone, simulated_drone,
                                                                 drone_id, s.value))],
                       cache |-> s.cache]
                 ELSE [results |-> r2, cache |-> s.cache]
        ELSE [results |-> [acc.results EXCEPT !.performance.temporal_checks = @ + 1],
              cache |-> t.cache]

\* one iteration of the loop of lines 80-96 for candidate drone_id
validate_step(buffer, drones, primary_drone, drone_id, acc) ==
    LET simulated_drone == drones[drone_id]
        r1 == [acc.results EXCEPT !.performance.temporal_checks = @ + 1]
        t == check_temporal_conflict(acc.cache, primary_drone, simulated_drone)
    IN  IF t.value
        THEN LET r2 == [r1 EXCEPT !.performance.spatial_checks = @ + 1]
                 s == check_spatial_conflict(buffer, t.cache, primary_drone, simulated_drone)
             IN  IF s.value # <<>>
                 THEN [results |-> [r2 EXCEPT !.status = "conflict",
                                              !.conflicts = Append(@,
                                                  conflict_entry(primary_drone, simulated_drone,
                                                                 drone_id, s.value))],
                       cache |-> s.cache]
                 ELSE [results |-> r2, cache |-> s.cache]
        ELSE [results |-> r1, cache |-> t.cache]

RECURSIVE validate_loop(_, _, _, _, _, _)
validate_loop(buffer, drones, primary_drone, order, i, acc) ==
    IF i > Len(order) THEN acc
    ELSE validate_loop(buffer, drones, primary_drone, order, i + 1,
                       validate_step(buffer, drones, primary_drone, order[i], acc))

\* the whole call: the returned dictionary and the cache it leaves behind
validate_mission(buffer, drones, index, cache, primary_drone, order) ==
    LET results == [status |-> "clear", conflicts |-> <<>>,
                    performance |-> [spatial_checks |-> 0, temporal_checks |-> 0,
                                     cache_hits |-> 0,
                                     total_drones |-> Cardinality(DOMAIN drones)]]
    IN  validate_loop(buffer, drones, primary_drone, order, 1,
                      [results |-> results, cache |-> cache])

(***************************************************************************)
(* DeconflictionSystem.get_conflict_explanation                            *)
(***************************************************************************)
\* the value is an instance of the dataclass ConflictPoint, which defines no
\* __getitem__ : loc[0] raises TypeError on it
is_ConflictPoint(loc) == DOMAIN loc = {"drone_id", "point", "type", "severity"}

\* lines 232-233: one line per location among the first five
RECURSIVE explain_locations(_, _, _)
explain_locations(locations, i, explanation) ==
    IF i > Min(Len(locations), 5) THEN [raised |-> "none", explanation |-> explanation]
    ELSE IF is_ConflictPoint(locations[i])
         THEN [raised |-> "TypeError", explanation |-> explanation]
         ELSE explain_locations(locations, i + 1,
                  Append(explanation, [line |-> "location", x |-> locations[i][1],
                                       y |-> locations[i][2], z |-> locations[i][3]]))

\* lines 223-236: the lines of the conflicts from the k-th on
RECURSIVE explain_conflicts(_, _, _)
explain_conflicts(conflicts, k, explanation) ==
    IF k > Len(conflicts) THEN [raised |-> "none", explanation |-> explanation]
    ELSE LET conflict == conflicts[k]
             locations == conflict.conflict_locations
             head == explanation \o
                       << [line |-> "Conflict with drone", drone_id |-> conflict.conflicting_drone],
                          [line |-> "Time overlap", start |-> conflict.time_overlap.start,
                           end |-> conflict.time_overlap.end],
                          [line |-> "Number of conflict locations", n |-> Len(locations)],
                          [line |-> "Locations:"] >>
             locs == explain_locations(locations, 1, head)
         IN  IF locs.raised # "none" THEN locs
             ELSE explain_conflicts(conflicts, k + 1,
                      IF Len(locations) > 5
                      THEN Append(locs.explanation,
                                  [line |-> "more locations", n |-> Len(locations) - 5])
                      ELSE locs.explanation)

get_conflict_explanation(validation_results) ==
    IF validation_results.status = "clear"
    THEN [raised |-> "none",
          text |-> << [line |-> "No conflicts detected in the mission."] >>]
    ELSE LET out == explain_conflicts(validation_results.conflicts, 1, <<>>)
         IN  [raised |-> out.raised,
              text |-> IF out.raised = "none" THEN out.explanation ELSE <<>>]

(***************************************************************************)
(* DeconflictionSystem._update_indexes                                     *)
(***************************************************************************)
points_of(drone) == [i \in 1..Len(drone.waypoints) |->
                        <<drone.waypoints[i].x, drone.waypoints[i].y, drone.waypoints[i].z>>]

\* KDTree(points) rejects an empty point list with ValueError
kdtree_raises(points) == points = <<>>

update_spatial_index(index, drone) ==
    IF index = <<"None">> THEN <<"KDTree", points_of(drone)>>
    ELSE <<"KDTree", index[2] \o points_of(drone)>>

append_bucket(index, time, id) ==
    IF time \in DOMAIN index THEN [index EXCEPT ![time] = Append(@, id)]
    ELSE index @@ (time :> <<id>>)

update_time_index(index, drone) ==
    LET t == get_time_range(drone)
    IN  append_bucket(append_bucket(index, t[1], drone.id), t[2], drone.id)

(***************************************************************************)
(* Initial state: a freshly constructed DeconflictionSystem.               *)
(***************************************************************************)
NoOp == [op |-> "init", drone |-> NoDrone, raised |-> "none"]

NoPointCall == [done |-> FALSE, value |-> FALSE]

NoCtorArgs == <<"", <<>>, 0, 0>>

NoCtorOut == [done |-> FALSE, raised |-> "none", drone |-> NoDrone]

NoSpatialOut == [done |-> FALSE, value |-> <<>>]

NoKeyArgs == << <<"spatial", "", "">>, <<"spatial", "", "">> >>

NoKeyOut == [done |-> FALSE, key1 |-> "", key2 |-> ""]

NoTrajOut == [done |-> FALSE, value |-> FALSE]

NoThread == [primary |-> NoDrone, pc |-> "idle", todo |-> <<>>, results |-> NoResult]

NoThreads == [t \in 1..2 |-> NoThread]

\* no stand-alone spatial, key or trajectory call and no concurrent
\* validation is under way
NoCalls ==
    /\ spatial_args = <<NoDrone, NoDrone>>
    /\ spatial_out = NoSpatialOut
    /\ key_args = NoKeyArgs
    /\ key_out = NoKeyOut
    /\ traj_args = NoDrone
    /\ traj_out = NoTrajOut
    /\ threads = NoThreads

NoExplainOut == [done |-> FALSE, raised |-> "none", text |-> <<>>, results |-> NoResult]

NoTemporalArgs == <<NoDrone, NoDrone>>

NoTemporalOut == [ab_done |-> FALSE, ab |-> FALSE, ba_done |-> FALSE, ba |-> FALSE,
                  hit |-> FALSE]

FreshEngine ==
    /\ simulated_drones = EmptyDict
    /\ spatial_index = <<"None">>
    /\ time_index = EmptyDict
    /\ conflict_cache = EmptyDict
    /\ lastOp = NoOp
    /\ result = NoResult
    /\ repeated = FALSE
    /\ prevResult = NoResult
    /\ opCount = 0
    /\ validations = 0

Init ==
    /\ safety_buffer \in 0..MaxBuffer
    /\ max_simulated_drones \in 1..MaxCapacity
    /\ FreshEngine
    /\ wp1 = Waypoint(0, 0, 0, 0)
    /\ wp2 = Waypoint(0, 0, 0, 0)
    /\ point_call = NoPointCall
    /\ ctor_args = NoCtorArgs
    /\ ctor_out = NoCtorOut
    /\ temporal_args = NoTemporalArgs
    /\ temporal_out = NoTemporalOut
    /\ explain_out = NoExplainOut
    /\ NoCalls

\* bookkeeping shared by every call on the engine
Called(op, drone, raised) ==
    /\ lastOp' = [op |-> op, drone |-> drone, raised |-> raised]
    /\ repeated' = ( /\ op = "validate" /\ raised = "none"
                      /\ lastOp.op = "validate" /\ lastOp.raised = "none"
                      /\ lastOp.drone = drone )
    /\ prevResult' = IF repeated' THEN result ELSE NoResult
    /\ opCount' = opCount + 1
    /\ validations' = IF op = "validate" THEN validations + 1 ELSE validations
    /\ explain_out' = NoExplainOut
    /\ UNCHANGED <<config, pure>>

(***************************************************************************)
(* add_simulated_drone(drone)                                              *)
(***************************************************************************)
\* variant: the temporal index is updated before the capacity test raises
AddRejected_indexed(drone) ==
    /\ opCount < MaxOps
    /\ Cardinality(DOMAIN simulated_drones) >= max_simulated_drones
    /\ time_index' = update_time_index(time_index, drone)
    /\ Called("add", drone, "ValueError: maximum exceeded")
    /\ result' = NoResult
    /\ UNCHANGED <<simulated_drones, spatial_index, conflict_cache>>

\* variant: the drone is stored before the capacity test raises
AddRejected_stored(drone) ==
    /\ opCount < MaxOps
    /\ Cardinality(DOMAIN simulated_drones) >= max_simulated_drones
    /\ simulated_drones' = [id \in DOMAIN simulated_drones \cup {drone.id} |->
                               IF id = drone.id THEN drone ELSE simulated_drones[id]]
    /\ Called("add", drone, "ValueError: maximum exceeded")
    /\ result' = NoResult
    /\ UNCHANGED <<spatial_index, time_index, conflict_cache>>

\* line 38-40: the registry is full
AddRejected(drone) ==
    /\ opCount < MaxOps
    /\ Cardinality(DOMAIN simulated_drones) >= max_simulated_drones
    /\ Called("add", drone, "ValueError: maximum exceeded")
    /\ result' = NoResult
    /\ UNCHANGED engine

\* line 42 has stored the drone when KDTree raises in _update_indexes (line 108)
AddIndexFailure(drone) ==
    /\ opCount < MaxOps
    /\ Cardinality(DOMAIN simulated_drones) < max_simulated_drones
    /\ spatial_index = <<"None">>
    /\ kdtree_raises(points_of(drone))
    /\ simulated_drones' = [id \in DOMAIN simulated_drones \cup {drone.id} |->
                               IF id = drone.id THEN drone ELSE simulated_drones[id]]
    /\ Called("add", drone, "ValueError: KDTree")
    /\ result' = NoResult
    /\ UNCHANGED <<spatial_index, time_index, conflict_cache>>

AddAccepted(drone) ==
    /\ opCount < MaxOps
    /\ Cardinality(DOMAIN simulated_drones) < max_simulated_drones
    /\ ~(spatial_index = <<"None">> /\ kdtree_raises(points_of(drone)))
    /\ simulated_drones' = [id \in DOMAIN simulated_drones \cup {drone.id} |->
                               IF id = drone.id THEN drone ELSE simulated_drones[id]]
    /\ spatial_index' = update_spatial_index(spatial_index, drone)
    /\ time_index' = update_time_index(time_index, drone)
    /\ Called("add", drone, "none")
    /\ result' = NoResult
    /\ UNCHANGED conflict_cache

(***************************************************************************)
(* validate_mission(primary_drone)                                         *)
(***************************************************************************)
\* line 74, `start_time <= time <= end_time`: TRUE when the chained
\* comparison meets an aware and a naive datetime for some key of the index
scan_raises(index, primary_drone) ==
    LET t == get_time_range(primary_drone)
    IN  \E time \in DOMAIN index :
           \/ is_aware(time) # is_aware(t[1])
           \/ t[1] <= time /\ is_aware(time) # is_aware(t[2])

\* line 98 subtracts start_time from datetime.now(); line 70 has rebound
\* start_time to the primary's start, and datetime.now() is naive
timing_raises(primary_drone) == is_aware(get_time_range(primary_drone)[1])

\* TypeError in the scan of the temporal index: nothing has been touched yet
ValidateScanFailure(primary_drone) ==
    /\ opCount < MaxOps
    /\ scan_raises(time_index, primary_drone)
    /\ Called("validate", primary_drone, "TypeError: compare")
    /\ result' = NoResult
    /\ UNCHANGED engine

\* TypeError at line 98: the loop has run and filled the cache, the
\* dictionary is never returned
ValidateTimingFailure(primary_drone) ==
    /\ opCount < MaxOps
    /\ ~scan_raises(time_index, primary_drone)
    /\ timing_raises(primary_drone)
    /\ \E order \in Orders(relevant_drones(time_index, primary_drone)) :
          conflict_cache' = validate_mission(safety_buffer, simulated_drones, time_index,
                                             conflict_cache, primary_drone, order).cache
    /\ Called("validate", primary_drone, "TypeError: subtract")
    /\ result' = NoResult
    /\ UNCHANGED <<simulated_drones, spatial_index, time_index>>

ValidateMission(primary_drone) ==
    /\ opCount < MaxOps
    /\ ~scan_raises(time_index, primary_drone)
    /\ ~timing_raises(primary_drone)
    /\ \E order \in Orders(relevant_drones(time_index, primary_drone)) :
          LET out == validate_mission(safety_buffer, simulated_drones, time_index,
                                      conflict_cache, primary_drone, order)
          IN  /\ result' = out.results
              /\ conflict_cache' = out.cache
    /\ Called("validate", primary_drone, "none")
    /\ UNCHANGED <<simulated_drones, spatial_index, time_index>>

Next ==
    \E drone \in Drones :
       \/ AddRejected(drone)
       \/ AddIndexFailure(drone)
       \/ AddAccepted(drone)
       \/ ValidateScanFailure(drone)
       \/ ValidateTimingFailure(drone)
       \/ ValidateMission(drone)

Spec == Init /\ [][Next]_vars

(***************************************************************************)
(* The engine together with get_conflict_explanation(results), applied to  *)
(* the dictionary that the last validate_mission returned.                 *)
(***************************************************************************)
GetConflictExplanation ==
    /\ lastOp.op = "validate" /\ lastOp.raised = "none"
    /\ ~explain_out.done
    /\ LET out == get_conflict_explanation(result)
       IN  explain_out' = [done |-> TRUE, raised |-> out.raised, text |-> out.text,
                           results |-> result]
    /\ UNCHANGED <<config, engine, lastOp, result, repeated, prevResult, opCount,
                   validations, pure>>

NextExplain == Next \/ GetConflictExplanation

SpecExplain == Init /\ [][NextExplain]_vars

(***************************************************************************)
(* Stand-alone calls of _check_point_conflict on a grid of waypoints.      *)
(***************************************************************************)
Grid == { Waypoint(x, y, z, 0) : x \in 0..MaxCoord, y \in 0..MaxCoord, z \in 0..MaxCoord }

InitPoint ==
    /\ safety_buffer \in 0..MaxBuffer
    /\ max_simulated_drones = 1
    /\ FreshEngine
    /\ wp1 \in Grid
    /\ wp2 \in Grid
    /\ point_call = NoPointCall
    /\ ctor_args = NoCtorArgs
    /\ ctor_out = NoCtorOut
    /\ temporal_args = NoTemporalArgs
    /\ temporal_out = NoTemporalOut
    /\ explain_out = NoExplainOut
    /\ NoCalls

CheckPointConflict ==
    /\ ~point_call.done
    /\ point_call' = [done |-> TRUE, value |-> check_point_conflict(safety_buffer, wp1, wp2)]
    /\ UNCHANGED <<config, engine, lastOp, result, repeated, prevResult, opCount, validations,
                   wp1, wp2, ctor_args, ctor_out, temporal_args, temporal_out, explain_out,
                   spatial_call, key_call, traj_call, threads>>

NextPoint == CheckPointConflict

SpecPoint == InitPoint /\ [][NextPoint]_vars

(***************************************************************************)
(* Stand-alone constructions Drone(id, waypoints, start_time, end_time).   *)
(***************************************************************************)
Times == 0..MaxTime

CtorWaypoints == { W(0), Waypoint(MAX_XY + 1, 0, 0, 0), Waypoint(0, 0 - MAX_XY - 1, 0, 0),
                   Waypoint(0, 0, MAX_Z + 1, 0), Waypoint(MAX_XY, MAX_XY, MAX_Z, 0) }

CtorWaypointLists == UNION { [1..n -> CtorWaypoints] : n \in 0..MaxWaypoints }

InitDrone ==
    /\ safety_buffer = 0
    /\ max_simulated_drones = 1
    /\ FreshEngine
    /\ wp1 = Waypoint(0, 0, 0, 0)
    /\ wp2 = Waypoint(0, 0, 0, 0)
    /\ point_call = NoPointCall
    /\ ctor_args \in {"a"} \X CtorWaypointLists \X Times \X Times
    /\ ctor_out = NoCtorOut
    /\ temporal_args = NoTemporalArgs
    /\ temporal_out = NoTemporalOut
    /\ explain_out = NoExplainOut
    /\ NoCalls

\* Drone(...) runs the class's own __init__ only; nothing in it raises
ConstructDrone ==
    /\ ~ctor_out.done
    /\ ctor_out' = [done |-> TRUE, raised |-> "none",
                    drone |-> Drone(ctor_args[1], ctor_args[2], ctor_args[3], ctor_args[4])]
    /\ UNCHANGED <<config, engine, lastOp, result, repeated, prevResult, opCount, validations,
                   wp1, wp2, point_call, ctor_args, temporal_args, temporal_out,
                   explain_out, spatial_call, key_call, traj_call, threads>>

NextDrone == ConstructDrone

SpecDrone == InitDrone /\ [][NextDrone]_vars

(***************************************************************************)
(* Stand-alone calls _check_temporal_conflict(A, B) and (B, A) on a fresh  *)
(* engine, in either order.                                                *)
(***************************************************************************)
TemporalDrones == { Drone(id, <<W(0)>>, s, e) : id \in Ids, s \in Times, e \in Times }

InitTemporal ==
    /\ safety_buffer = 0
    /\ max_simulated_drones = 1
    /\ FreshEngine
    /\ wp1 = Waypoint(0, 0, 0, 0)
    /\ wp2 = Waypoint(0, 0, 0, 0)
    /\ point_call = NoPointCall
    /\ ctor_args = NoCtorArgs
    /\ ctor_out = NoCtorOut
    /\ temporal_args \in TemporalDrones \X TemporalDrones
    /\ temporal_out = NoTemporalOut
    /\ explain_out = NoExplainOut
    /\ NoCalls

CheckTemporalAB ==
    /\ ~temporal_out.ab_done
    /\ LET r == check_temporal_conflict(conflict_cache, temporal_args[1], temporal_args[2])
       IN  /\ temporal_out' = [temporal_out EXCEPT !.ab_done = TRUE, !.ab = r.value,
                                                   !.hit = @ \/ r.cache = conflict_cache]
           /\ conflict_cache' = r.cache
    /\ UNCHANGED <<config, simulated_drones, spatial_index, time_index, lastOp, result,
                   repeated, prevResult, opCount, validations, wp1, wp2, point_call,
                   ctor_args, ctor_out, temporal_args, explain_out, spatial_call, key_call,
                   traj_call, threads>>

CheckTemporalBA ==
    /\ ~temporal_out.ba_done
    /\ LET r == check_temporal_conflict(conflict_cache, temporal_args[2], temporal_args[1])
       IN  /\ temporal_out' = [temporal_out EXCEPT !.ba_done = TRUE, !.ba = r.value,
                                                   !.hit = @ \/ r.cache = conflict_cache]
           /\ conflict_cache' = r.cache
    /\ UNCHANGED <<config, simulated_drones, spatial_index, time_index, lastOp, result,
                   repeated, prevResult, opCount, validations, wp1, wp2, point_call,
                   ctor_args, ctor_out, temporal_args, explain_out, spatial_call, key_call,
                   traj_call, threads>>

NextTemporal == CheckTemporalAB \/ CheckTemporalBA

SpecTemporal == InitTemporal /\ [][NextTemporal]_vars

(***************************************************************************)
(* Stand-alone call _check_spatial_conflict(primary, S) on a fresh engine. *)
(***************************************************************************)
SpatialWaypointLists ==
    UNION { [1..n -> { W(x) : x \in 0..MaxCoord }] : n \in 0..MaxWaypoints }

InitSpatial ==
    /\ safety_buffer \in 0..MaxBuffer
    /\ max_simulated_drones = 1
    /\ FreshEngine
    /\ wp1 = Waypoint(0, 0, 0, 0)
    /\ wp2 = Waypoint(0, 0, 0, 0)
    /\ point_call = NoPointCall
    /\ ctor_args = NoCtorArgs
    /\ ctor_out = NoCtorOut
    /\ temporal_args = NoTemporalArgs
    /\ temporal_out = NoTemporalOut
    /\ explain_out = NoExplainOut
    /\ spatial_args \in { <<Drone("a", p, 0, 1), Drone("b", q, 0, 1)>> :
                            p \in SpatialWaypointLists, q \in SpatialWaypointLists }
    /\ spatial_out = NoSpatialOut
    /\ key_args = NoKeyArgs
    /\ key_out = NoKeyOut
    /\ traj_args = NoDrone
    /\ traj_out = NoTrajOut
    /\ threads = NoThreads

CheckSpatialConflict ==
    /\ ~spatial_out.done
    /\ LET r == check_spatial_conflict(safety_buffer, conflict_cache,
                                       spatial_args[1], spatial_args[2])
       IN  /\ spatial_out' = [done |-> TRUE, value |-> r.value]
           /\ conflict_cache' = r.cache
    /\ UNCHANGED <<config, simulated_drones, spatial_index, time_index, history, wp1, wp2,
                   point_call, ctor_args, ctor_out, temporal_args, temporal_out, explain_out,
                   spatial_args, key_call, traj_call, threads>>

NextSpatial == CheckSpatialConflict

SpecSpatial == InitSpatial /\ [][NextSpatial]_vars

(***************************************************************************)
(* The key strings of two cache accesses (lines 161 and 196).              *)
(***************************************************************************)
Kinds == {"spatial", "temporal"}

\* the key that a check of the given kind uses for drones with these ids
key_of(kind, primary_id, simulated_id) ==
    LET primary_drone == [NoDrone EXCEPT !.id = primary_id]
        simulated_drone == [NoDrone EXCEPT !.id = simulated_id]
    IN  IF kind = "spatial" THEN spatial_key(primary_drone, simulated_drone)
        ELSE temporal_key(primary_drone, simulated_drone)

InitKeys ==
    /\ safety_buffer = 0
    /\ max_simulated_drones = 1
    /\ FreshEngine
    /\ wp1 = Waypoint(0, 0, 0, 0)
    /\ wp2 = Waypoint(0, 0, 0, 0)
    /\ point_call = NoPointCall
    /\ ctor_args = NoCtorArgs
    /\ ctor_out = NoCtorOut
    /\ temporal_args = NoTemporalArgs
    /\ temporal_out = NoTemporalOut
    /\ explain_out = NoExplainOut
    /\ spatial_args = <<NoDrone, NoDrone>>
    /\ spatial_out = NoSpatialOut
    /\ key_args \in (Kinds \X Ids \X Ids) \X (Kinds \X Ids \X Ids)
    /\ key_out = NoKeyOut
    /\ traj_args = NoDrone
    /\ traj_out = NoTrajOut
    /\ threads = NoThreads

BuildKeys ==
    /\ ~key_out.done
    /\ key_out' = [done |-> TRUE,
                   key1 |-> key_of(key_args[1][1], key_args[1][2], key_args[1][3]),
                   key2 |-> key_of(key_args[2][1], key_args[2][2], key_args[2][3])]
    /\ UNCHANGED <<config, engine, history, wp1, wp2, point_call, ctor_args, ctor_out,
                   temporal_args, temporal_out, explain_out, spatial_call, key_args,
                   traj_call, threads>>

NextKeys == BuildKeys

SpecKeys == InitKeys /\ [][NextKeys]_vars

(***************************************************************************)
(* Stand-alone call validate_trajectory() on a constructed drone.          *)
(***************************************************************************)
TrajWaypointLists ==
    UNION { [1..n -> { Waypoint(0, 0, 0, t) : t \in Times }] : n \in 0..MaxWaypoints }

InitTrajectory ==
    /\ safety_buffer = 0
    /\ max_simulated_drones = 1
    /\ FreshEngine
    /\ wp1 = Waypoint(0, 0, 0, 0)
    /\ wp2 = Waypoint(0, 0, 0, 0)
    /\ point_call = NoPointCall
    /\ ctor_args = NoCtorArgs
    /\ ctor_out = NoCtorOut
    /\ temporal_args = NoTemporalArgs
    /\ temporal_out = NoTemporalOut
    /\ explain_out = NoExplainOut
    /\ spatial_args = <<NoDrone, NoDrone>>
    /\ spatial_out = NoSpatialOut
    /\ key_args = NoKeyArgs
    /\ key_out = NoKeyOut
    /\ traj_args \in { Drone("a", w, s, e) : w \in TrajWaypointLists, s \in Times, e \in Times }
    /\ traj_out = NoTrajOut
    /\ threads = NoThreads

ValidateTrajectory ==
    /\ ~traj_out.done
    /\ traj_out' = [done |-> TRUE, value |-> validate_trajectory(traj_args)]
    /\ UNCHANGED <<config, engine, history, wp1, wp2, point_call, ctor_args, ctor_out,
                   temporal_args, temporal_out, explain_out, spatial_call, key_call,
                   traj_args, threads>>

NextTrajectory == ValidateTrajectory

SpecTrajectory == InitTrajectory /\ [][NextTrajectory]_vars

(***************************************************************************)
(* Two validate_mission calls for different primaries running concurrently *)
(* against a registry that no add_simulated_drone changes.  A call is cut  *)
(* into the scan of the temporal index (lines 73-77) and, per candidate,   *)
(* the cache lookup and the computation with its cache write of the        *)
(* temporal test (lines 196-198, 200-208) and of the spatial test (lines   *)
(* 161-163, 165-177); registry, index and cache are shared, the results    *)
(* dictionary and the candidate list are local to the call.                *)
(***************************************************************************)
ConcurrentPrimaries == { d \in Drones : ~is_aware(d.start_time) }

ConcurrentPeers == { d \in ConcurrentPrimaries : d.waypoints # <<>> }

\* lines 54-64: the dictionary a call starts with
initial_results(drones) ==
    [status |-> "clear", conflicts |-> <<>>,
     performance |-> [spatial_checks |-> 0, temporal_checks |-> 0, cache_hits |-> 0,
                      total_drones |-> Cardinality(DOMAIN drones)]]

InitConcurrent ==
    /\ safety_buffer \in 0..MaxBuffer
    /\ max_simulated_drones = 2
    /\ \E d1 \in ConcurrentPeers : \E d2 \in ConcurrentPeers :
          \* the registry after add_simulated_drone(d1), add_simulated_drone(d2)
          /\ simulated_drones = [i \in {d1.id, d2.id} |-> IF i = d2.id THEN d2 ELSE d1]
          /\ spatial_index = update_spatial_index(update_spatial_index(<<"None">>, d1), d2)
          /\ time_index = update_time_index(update_time_index(EmptyDict, d1), d2)
    /\ conflict_cache = EmptyDict
    /\ lastOp = NoOp
    /\ result = NoResult
    /\ repeated = FALSE
    /\ prevResult = NoResult
    /\ opCount = 0
    /\ validations = 0
    /\ wp1 = Waypoint(0, 0, 0, 0)
    /\ wp2 = Waypoint(0, 0, 0, 0)
    /\ point_call = NoPointCall
    /\ ctor_args = NoCtorArgs
    /\ ctor_out = NoCtorOut
    /\ temporal_args = NoTemporalArgs
    /\ temporal_out = NoTemporalOut
    /\ explain_out = NoExplainOut
    /\ spatial_args = <<NoDrone, NoDrone>>
    /\ spatial_out = NoSpatialOut
    /\ key_args = NoKeyArgs
    /\ key_out = NoKeyOut
    /\ traj_args = NoDrone
    /\ traj_out = NoTrajOut
    /\ \E p1 \in ConcurrentPrimaries : \E p2 \in ConcurrentPrimaries \ {p1} :
          threads = [t \in 1..2 |-> [primary |-> IF t = 1 THEN p1 ELSE p2, pc |-> "scan",
                                    todo |-> <<>>, results |-> NoResult]]

\* what a call does not touch
ConcurrentFrame ==
    UNCHANGED <<config, simulated_drones, spatial_index, time_index, history, wp1, wp2,
                point_call, ctor_args, ctor_out, temporal_args, temporal_out, explain_out,
                spatial_call, key_call, traj_call>>

\* the call moves on to its next candidate, or to the return statement
advance(th, results) ==
    [th EXCEPT !.results = results, !.todo = Tail(@),
               !.pc = IF Len(th.todo) = 1 THEN "done" ELSE "temporal"]

store(cache, key, value) ==
    [k \in DOMAIN cache \cup {key} |-> IF k = key THEN value ELSE cache[k]]

\* lines 69-77
ScanIndex(t) ==
    /\ threads[t].pc = "scan"
    /\ \E order \in Orders(relevant_drones(time_index, threads[t].primary)) :
          threads' = [threads EXCEPT ![t].todo = order,
                                     ![t].results = initial_results(simulated_drones),
                                     ![t].pc = IF order = <<>> THEN "done" ELSE "temporal"]
    /\ UNCHANGED conflict_cache
    /\ ConcurrentFrame

\* lines 81-84 and 196-198: the candidate is counted and the cache consulted
TemporalLookup(t) ==
    LET th == threads[t]
        S == simulated_drones[Head(th.todo)]
        key == temporal_key(th.primary, S)
        r1 == [th.results EXCEPT !.performance.temporal_checks = @ + 1]
    IN  /\ th.pc = "temporal"
        /\ threads' = [threads EXCEPT ![t] =
                         IF key \notin DOMAIN conflict_cache
                         THEN [th EXCEPT !.results = r1, !.pc = "temporal_miss"]
                         ELSE IF conflict_cache[key]
                              THEN [th EXCEPT !.results = r1, !.pc = "spatial"]
                              ELSE advance(th, r1)]
        /\ UNCHANGED conflict_cache
        /\ ConcurrentFrame

\* lines 200-209: the interval test and the write of its value
TemporalStore(t) ==
    LET th == threads[t]
        S == simulated_drones[Head(th.todo)]
        conflict == temporal_overlap(th.primary, S)
    IN  /\ th.pc = "temporal_miss"
        /\ conflict_cache' = store(conflict_cache, temporal_key(th.primary, S), conflict)
        /\ threads' = [threads EXCEPT ![t] =
                         IF conflict THEN [th EXCEPT !.pc = "spatial"]
                         ELSE advance(th, th.results)]
        /\ ConcurrentFrame

\* lines 85-96 for a list found in the cache or just computed
record_spatial(th, S, spatial_conflicts) ==
    IF spatial_conflicts # <<>>
    THEN advance(th, [th.results EXCEPT
                         !.status = "conflict",
                         !.conflicts = Append(@, conflict_entry(th.primary, S, S.id,
                                                                spatial_conflicts))])
    ELSE advance(th, th.results)

\* lines 85-86 and 161-163
SpatialLookup(t) ==
    LET th == threads[t]
        S == simulated_drones[Head(th.todo)]
        key == spatial_key(th.primary, S)
        counted == [th EXCEPT !.results.performance.spatial_checks = @ + 1]
    IN  /\ th.pc = "spatial"
        /\ threads' = [threads EXCEPT ![t] =
                         IF key \in DOMAIN conflict_cache
                         THEN record_spatial(counted, S, conflict_cache[key])
                         ELSE [counted EXCEPT !.pc = "spatial_miss"]]
        /\ UNCHANGED conflict_cache
        /\ ConcurrentFrame

\* lines 165-178 and 87-96
SpatialStore(t) ==
    LET th == threads[t]
        S == simulated_drones[Head(th.todo)]
        conflicts == spatial_scan(safety_buffer, th.primary, S, 1, 1)
    IN  /\ th.pc = "spatial_miss"
        /\ conflict_cache' = store(conflict_cache, spatial_key(th.primary, S), conflicts)
        /\ threads' = [threads EXCEPT ![t] = record_spatial(th, S, conflicts)]
        /\ ConcurrentFrame

NextConcurrent ==
    \E t \in 1..2 :
       \/ ScanIndex(t)
       \/ TemporalLookup(t)
       \/ TemporalStore(t)
       \/ SpatialLookup(t)
       \/ SpatialStore(t)

SpecConcurrent == InitConcurrent /\ [][NextConcurrent]_vars

(***************************************************************************)
(* Properties.                                                             *)
(***************************************************************************)
Range(seq) == { seq[i] : i \in 1..Len(seq) }

Dist2(a, b) ==
    (a.x - b.x) * (a.x - b.x) + (a.y - b.y) * (a.y - b.y) + (a.z - b.z) * (a.z - b.z)

\* the Euclidean distance of a and b is below buffer (buffer >= 0)
Within(buffer, a, b) == Dist2(a, b) < buffer * buffer

WindowsOverlap(p, s) == p.start_time < s.end_time /\ s.start_time < p.end_time

Coordinates(w) == <<w.x, w.y, w.z>>

\* the last call is a validate_mission that returned its dictionary
Validated == lastOp.op = "validate" /\ lastOp.raised = "none"

\* C1: detection is complete.  When validate_mission(primary), called after
\* add_simulated_drone calls only, returns 'clear', no registered drone has a
\* window overlapping the primary's together with a waypoint closer than
\* safety_buffer to a waypoint of the primary.
C1_DetectionComplete ==
    (Validated /\ validations = 1 /\ result.status = "clear") =>
        \A id \in DOMAIN simulated_drones :
            ~ ( /\ WindowsOverlap(lastOp.drone, simulated_drones[id])
                /\ \E a \in Range(lastOp.drone.waypoints) :
                      \E b \in Range(simulated_drones[id].waypoints) :
                          Within(safety_buffer, a, b) )

\* C2: detection is sound.  Every conflict entry returned by validate_mission
\* names a registered drone, and each of its locations is the coordinates of a
\* waypoint of this primary that is closer than safety_buffer to a waypoint of
\* that drone as currently registered.
C2_DetectionSound ==
    Validated =>
        \A e \in Range(result.conflicts) :
            /\ e.conflicting_drone \in DOMAIN simulated_drones
            /\ \A loc \in Range(e.conflict_locations) :
                  \E a \in Range(lastOp.drone.waypoints) :
                      /\ loc.point = Coordinates(a)
                      /\ \E b \in Range(simulated_drones[e.conflicting_drone].waypoints) :
                            Within(safety_buffer, a, b)

\* C3: a registered drone whose window does not overlap the primary's
\* (primary.end <= peer.start or primary.start >= peer.end) never appears in
\* the conflicts returned by validate_mission, whatever calls came before.
C3_DisjointWindowsNeverConflict ==
    Validated =>
        \A e \in Range(result.conflicts) :
            LET peer == simulated_drones[e.conflicting_drone]
            IN  ~ ( \/ lastOp.drone.end_time <= peer.start_time
                    \/ lastOp.drone.start_time >= peer.end_time )

\* C4: in every result of validate_mission the status is 'conflict' exactly
\* when the conflicts list is non-empty and 'clear' otherwise, and every
\* conflict entry carries a non-empty conflict_locations list.
C4_StatusMatchesConflicts ==
    Validated =>
        /\ result.status \in {"clear", "conflict"}
        /\ result.status = "conflict" <=> result.conflicts # <<>>
        /\ \A e \in Range(result.conflicts) : e.conflict_locations # <<>>

\* a validation that examined an overlapping candidate without any close
\* waypoint pair, next to one that produced a conflict entry
C4_Witness ==
    /\ Validated
    /\ result.status = "conflict"
    /\ result.performance.spatial_checks > Len(result.conflicts)

\* C5: with max_simulated_drones = N, an add_simulated_drone of a drone with a
\* fresh id succeeds while fewer than N drones are registered, every add fails
\* once N are registered, and the registry never holds more than N drones.
C5_CapacityLimit ==
    [][ (lastOp'.op = "add" /\ opCount' = opCount + 1) =>
          /\ ( /\ Cardinality(DOMAIN simulated_drones) < max_simulated_drones
               /\ lastOp'.drone.id \notin DOMAIN simulated_drones )
             => lastOp'.raised = "none"
          /\ Cardinality(DOMAIN simulated_drones) >= max_simulated_drones
             => lastOp'.raised # "none"
          /\ Cardinality(DOMAIN simulated_drones') <= max_simulated_drones ]_vars

\* C6: add_simulated_drone of a drone whose id is already registered fails and
\* leaves the registered drone, the temporal index and the registry size
\* unchanged.
C6_DuplicateIdRejected ==
    [][ ( /\ lastOp'.op = "add" /\ opCount' = opCount + 1
          /\ lastOp'.drone.id \in DOMAIN simulated_drones ) =>
          /\ lastOp'.raised # "none"
          /\ simulated_drones' = simulated_drones
          /\ time_index' = time_index ]_vars

\* C7: constructing a Drone raises when the waypoint list is empty, when
\* end_time <= start_time or when a waypoint is out of bounds, so every Drone
\* object that exists passes these three checks.
C7_ConstructionValidates ==
    ctor_out.done =>
        /\ post_init_raises(Drone(ctor_args[1], ctor_args[2], ctor_args[3], ctor_args[4]))
           => ctor_out.raised # "none"
        /\ ctor_out.raised = "none" => ~post_init_raises(ctor_out.drone)

ConflictSet(r) ==
    { [peer |-> e.conflicting_drone,
       locations |-> Range(e.conflict_locations),
       time_overlap |-> e.time_overlap] : e \in Range(r.conflicts) }

\* C8: validate_mission(M) called twice in a row returns the same status and
\* the same conflicts (peers, conflict location sets, time overlaps).
C8_ValidateIdempotent ==
    repeated =>
        /\ result.status = prevResult.status
        /\ ConflictSet(result) = ConflictSet(prevResult)

\* the second of two consecutive validations of one drone reports a conflict
C8_Witness ==
    /\ repeated
    /\ result.status = "conflict"
    /\ prevResult.status = "conflict"

\* C9: a second validate_mission(M) against an unchanged registry that yields
\* at least one candidate answers from the cache and reports cache_hits > 0,
\* more than the first call reported.
C9_CacheHitsCounted ==
    (repeated /\ result.performance.temporal_checks > 0) =>
        /\ result.performance.cache_hits > 0
        /\ result.performance.cache_hits > prevResult.performance.cache_hits

\* C10: two waypoints conflict exactly when their Euclidean distance is
\* strictly below safety_buffer (dx^2+dy^2+dz^2 < safety_buffer^2); a pair at
\* distance safety_buffer is no conflict; the test is symmetric.
C10_PointConflictStrict ==
    point_call.done =>
        /\ point_call.value <=> Within(safety_buffer, wp1, wp2)
        /\ Dist2(wp1, wp2) = safety_buffer * safety_buffer => ~point_call.value
        /\ point_call.value = check_point_conflict(safety_buffer, wp2, wp1)

\* two distinct waypoints exactly safety_buffer apart were tested
C10_Witness ==
    /\ point_call.done
    /\ safety_buffer > 0
    /\ Dist2(wp1, wp2) = safety_buffer * safety_buffer
    /\ ~point_call.value

\* C11: for every safety_buffer >= 0, when the primary and a registered drone
\* have waypoints at identical coordinates and overlapping time windows,
\* validate_mission(primary) returns 'conflict' with an entry for that drone
\* holding one location per waypoint pair at distance zero.
C11_IdenticalWaypointsConflict ==
    Validated =>
        \A id \in DOMAIN simulated_drones :
            LET P == lastOp.drone
                S == simulated_drones[id]
                zero == { ij \in (1..Len(P.waypoints)) \X (1..Len(S.waypoints)) :
                             Dist2(P.waypoints[ij[1]], S.waypoints[ij[2]]) = 0 }
            IN  (WindowsOverlap(P, S) /\ zero # {}) =>
                    /\ result.status = "conflict"
                    /\ \E e \in Range(result.conflicts) :
                          /\ e.conflicting_drone = id
                          /\ Len(e.conflict_locations) >= Cardinality(zero)

Dot(u, v) == u[1] * v[1] + u[2] * v[2] + u[3] * v[3]

Minus(a, b) == <<a.x - b.x, a.y - b.y, a.z - b.z>>

\* b lies on the straight segment from a1 to a2, or closer to it than buffer
NearSegment(buffer, a1, a2, b) ==
    LET d == Minus(a2, a1)
        v == Minus(b, a1)
        t == Dot(v, d)
        L == Dot(d, d)
        num == IF t <= 0 THEN Dot(v, v) * L
               ELSE IF t >= L THEN Dist2(b, a2) * L
               ELSE Dot(v, v) * L - t * t
    IN  IF L = 0 THEN Dist2(b, a1) = 0 \/ Within(buffer, a1, b)
        ELSE num = 0 \/ num < buffer * buffer * L

\* C12: validate_mission returns 'conflict' with a non-empty
\* conflict_locations list when a registered drone with an overlapping window
\* has a waypoint on (or within safety_buffer of) the straight segment between
\* two consecutive waypoints of the primary, even when no waypoint of the
\* primary is within safety_buffer of a waypoint of that drone.
C12_SegmentConflictDetected ==
    Validated =>
        \A id \in DOMAIN simulated_drones :
            LET P == lastOp.drone
                S == simulated_drones[id]
            IN  ( /\ WindowsOverlap(P, S)
                  /\ \E k \in 1..(Len(P.waypoints) - 1) :
                        \E b \in Range(S.waypoints) :
                            NearSegment(safety_buffer, P.waypoints[k], P.waypoints[k + 1], b) )
                =>  /\ result.status = "conflict"
                    /\ \E e \in Range(result.conflicts) :
                          e.conflicting_drone = id /\ e.conflict_locations # <<>>

\* C13: in every reachable engine state _check_spatial_conflict(P, S), for any
\* drone P and any registered S, returns the same set of conflict points as a
\* fresh computation over the waypoints of P and S, whatever calls came
\* before.
C13_SpatialTestPure ==
    \A P \in Drones :
        \A id \in DOMAIN simulated_drones :
            Range(check_spatial_conflict(safety_buffer, conflict_cache, P,
                                         simulated_drones[id]).value)
              = Range(spatial_scan(safety_buffer, P, simulated_drones[id], 1, 1))

\* C14: the temporal-overlap test is symmetric.  On an engine whose cache
\* holds no entry for either ordering of the pair (a fresh engine), the calls
\* _check_temporal_conflict(A, B) and _check_temporal_conflict(B, A), made in
\* either order, return the same value.
C14_TemporalSymmetric ==
    (temporal_out.ab_done /\ temporal_out.ba_done) =>
        temporal_out.ab = temporal_out.ba

\* both orderings were computed afresh for two windows that touch: A ends at
\* the instant B starts
C14_Witness ==
    /\ temporal_out.ab_done /\ temporal_out.ba_done /\ ~temporal_out.hit
    /\ temporal_args[1].end_time = temporal_args[2].start_time
    /\ temporal_args[1].start_time < temporal_args[2].end_time
    /\ ~temporal_out.ab

\* C15: every element of conflict_locations in a result of validate_mission
\* is a plain (x, y, z) triple that can be indexed by position, and
\* get_conflict_explanation applied to a result of validate_mission, clear or
\* conflict, returns a text and never fails.
C15_ExplanationNeverFails ==
    explain_out.done =>
        /\ explain_out.raised = "none"
        /\ \A e \in Range(result.conflicts) :
              \A loc \in Range(e.conflict_locations) : ~is_ConflictPoint(loc)

\* what the explanation of one conflict entry has to consist of
ExpectedEntryLines(e) ==
    LET locs == e.conflict_locations
        n == Len(locs)
        at(i) == IF is_ConflictPoint(locs[i]) THEN locs[i].point ELSE locs[i]
    IN  << [line |-> "Conflict with drone", drone_id |-> e.conflicting_drone],
           [line |-> "Time overlap", start |-> e.time_overlap.start,
            end |-> e.time_overlap.end],
           [line |-> "Number of conflict locations", n |-> n],
           [line |-> "Locations:"] >>
        \o [i \in 1..Min(n, 5) |-> [line |-> "location", x |-> at(i)[1], y |-> at(i)[2],
                                    z |-> at(i)[3]]]
        \o (IF n > 5 THEN << [line |-> "more locations", n |-> n - 5] >> ELSE <<>>)

RECURSIVE ExpectedLines(_, _)
ExpectedLines(conflicts, k) ==
    IF k > Len(conflicts) THEN <<>>
    ELSE ExpectedEntryLines(conflicts[k]) \o ExpectedLines(conflicts, k + 1)

\* C19: get_conflict_explanation returns the fixed no-conflict message for a
\* 'clear' result; for a conflict result it emits per entry the peer id, the
\* time-overlap window, the number n of locations, min(n, 5) location lines
\* for the first locations in order and a 'more locations' line with n - 5
\* exactly when n > 5.  It leaves the result as it was.
C19_ExplanationFormat ==
    explain_out.done =>
        /\ explain_out.raised = "none"
        /\ result.status = "clear" =>
              explain_out.text = << [line |-> "No conflicts detected in the mission."] >>
        /\ result.status = "conflict" =>
              explain_out.text = ExpectedLines(result.conflicts, 1)
        /\ explain_out.results = result

\* C16: validate_mission is total.  For any drone passed as primary, in any
\* engine state reached by add_simulated_drone and validate_mission calls, it
\* returns a result whose status is 'clear' or 'conflict' and never raises.
C16_ValidateTotal ==
    lastOp.op = "validate" =>
        /\ lastOp.raised = "none"
        /\ result.status \in {"clear", "conflict"}

\* C17: in every result of validate_mission, 0 <= number of conflict entries
\* <= spatial_checks <= temporal_checks <= total_drones, and total_drones is
\* the number of registered drones at the time of the call; against an empty
\* registry the three counts are 0 and the status is 'clear'.
C17_MetricsOrdered ==
    Validated =>
        LET p == result.performance
            n == Len(result.conflicts)
        IN  /\ 0 <= n /\ n <= p.spatial_checks
            /\ p.spatial_checks <= p.temporal_checks
            /\ p.temporal_checks <= p.total_drones
            /\ p.total_drones = Cardinality(DOMAIN simulated_drones)
            /\ simulated_drones = EmptyDict =>
                  /\ n = 0 /\ p.spatial_checks = 0 /\ p.temporal_checks = 0
                  /\ result.status = "clear"

\* a validation against two registered drones that examined both, found one
\* window overlapping and no conflict
C17_Witness ==
    /\ Validated
    /\ Len(result.conflicts) < result.performance.spatial_checks
    /\ result.performance.spatial_checks < result.performance.temporal_checks
    /\ result.performance.temporal_checks = result.performance.total_drones

\* C18: every conflict entry returned by validate_mission(primary) for peer S
\* carries time_overlap with start = max(primary.start_time, S.start_time),
\* end = min(primary.end_time, S.end_time) and start < end, after any
\* sequence of prior operations.
C18_TimeOverlapWellFormed ==
    Validated =>
        \A e \in Range(result.conflicts) :
            LET P == lastOp.drone
                S == simulated_drones[e.conflicting_drone]
            IN  /\ e.time_overlap.start = Max(P.start_time, S.start_time)
                /\ e.time_overlap.end = Min(P.end_time, S.end_time)
                /\ e.time_overlap.start < e.time_overlap.end

\* the registered ids whose current start_time or end_time lies in the closed
\* window of primary
BoundaryInside(primary) ==
    { id \in DOMAIN simulated_drones :
        LET S == simulated_drones[id]
        IN  \/ primary.start_time <= S.start_time /\ S.start_time <= primary.end_time
            \/ primary.start_time <= S.end_time /\ S.end_time <= primary.end_time }

\* C20: in any state reached by add_simulated_drone calls (re-registrations
\* of an id with another window included), the candidate set examined by
\* validate_mission(primary) is exactly the set of registered ids whose
\* current start_time or end_time lies in [primary.start_time,
\* primary.end_time], and temporal_checks equals the size of that set.
C20_CandidateSetExact ==
    (Validated /\ validations = 1) =>
        /\ relevant_drones(time_index, lastOp.drone) = BoundaryInside(lastOp.drone)
        /\ result.performance.temporal_checks = Cardinality(BoundaryInside(lastOp.drone))

\* the windows of p and s only touch
Touching(p, s) == p.end_time = s.start_time \/ p.start_time = s.end_time

\* C21: windows that only touch do not overlap.  When primary.end_time =
\* peer.start_time or primary.start_time = peer.end_time, validate_mission
\* selects the peer as a candidate and counts it in temporal_checks, but does
\* not count it in spatial_checks, creates no 'spatial_' cache entry for the
\* pair and reports no conflict entry for it.
C21_TouchingWindowsNotOverlapping ==
    [][ (lastOp'.op = "validate" /\ lastOp'.raised = "none" /\ opCount' = opCount + 1) =>
          LET P == lastOp'.drone
              candidates == relevant_drones(time_index, P)
              touching == { id \in DOMAIN simulated_drones :
                              Touching(P, simulated_drones[id]) }
          IN  /\ touching \subseteq candidates
              /\ result'.performance.temporal_checks = Cardinality(candidates)
              /\ result'.performance.spatial_checks <= Cardinality(candidates \ touching)
              /\ \A id \in touching :
                    /\ \A e \in Range(result'.conflicts) : e.conflicting_drone # id
                    /\ spatial_key(P, simulated_drones[id]) \in DOMAIN conflict_cache'
                         => spatial_key(P, simulated_drones[id]) \in DOMAIN conflict_cache
      ]_vars

\* the waypoint pairs closer than buffer, primary waypoint first, each as a
\* conflict point at the primary waypoint's coordinates
ExpectedConflictPoints(buffer, P, S) ==
    LET n == Len(P.waypoints)
        m == Len(S.waypoints)
        pairs == [k \in 1..(n * m) |-> <<((k - 1) \div m) + 1, ((k - 1) % m) + 1>>]
        close(pr) == Within(buffer, P.waypoints[pr[1]], S.waypoints[pr[2]])
        sel == SelectSeq(pairs, close)
    IN  [k \in 1..Len(sel) |->
            [drone_id |-> S.id, point |-> Coordinates(P.waypoints[sel[k][1]]),
             type |-> "spatial", severity |-> "high"]]

Bucket(index, time) == IF time \in DOMAIN index THEN index[time] ELSE <<>>

\* the number of times id occurs in seq
Occurrences(seq, id) == Cardinality({ k \in 1..Len(seq) : seq[k] = id })

\* C23: a successful add_simulated_drone(d) appends d.id to the buckets of
\* d.start_time and of d.end_time and removes no id from any bucket; hence in
\* every reachable state the id of each registered drone is in the bucket of
\* its current start_time and in that of its current end_time.
C23_BoundariesIndexed ==
    /\ [](\A id \in DOMAIN simulated_drones :
            /\ id \in Range(Bucket(time_index, simulated_drones[id].start_time))
            /\ id \in Range(Bucket(time_index, simulated_drones[id].end_time)))
    /\ [][ (lastOp'.op = "add" /\ lastOp'.raised = "none" /\ opCount' = opCount + 1) =>
             LET d == lastOp'.drone
             IN  /\ d.id \in Range(Bucket(time_index', d.start_time))
                 /\ d.id \in Range(Bucket(time_index', d.end_time))
                 /\ \A time \in DOMAIN time_index :
                       /\ time \in DOMAIN time_index'
                       /\ \A id \in Ids :
                             /\ Occurrences(time_index'[time], id)
                                  >= Occurrences(time_index[time], id)
                             /\ id # d.id =>
                                  Occurrences(time_index'[time], id)
                                    = Occurrences(time_index[time], id)
         ]_vars

\* C24: the conflict cache only grows.  Across add_simulated_drone and
\* validate_mission calls an entry once written is never removed and never
\* changes its value, and add_simulated_drone (re-registration of an existing
\* id included) leaves the cache unchanged.
C24_CacheOnlyGrows ==
    [][ /\ \A k \in DOMAIN conflict_cache :
              k \in DOMAIN conflict_cache' /\ conflict_cache'[k] = conflict_cache[k]
        /\ (lastOp'.op = "add" /\ opCount' = opCount + 1) =>
              conflict_cache' = conflict_cache
      ]_vars

\* a later validation met an entry for its pair that holds another value
\* than the interval test gives for the present drones: the entry was kept
C24_Witness ==
    /\ Validated
    /\ validations >= 2
    /\ result.performance.temporal_checks > 0
    /\ \E id \in DOMAIN simulated_drones :
          /\ temporal_key(lastOp.drone, simulated_drones[id]) \in DOMAIN conflict_cache
          /\ conflict_cache[temporal_key(lastOp.drone, simulated_drones[id])]
               # temporal_overlap(lastOp.drone, simulated_drones[id])

\* C25: cache keys are injective on (kind, primary id, candidate id): two
\* accesses that differ in kind, in primary id or in candidate id never use
\* the same cache entry, also for ids that contain the separator '_'.
C25_KeysInjective ==
    (key_out.done /\ key_args[1] # key_args[2]) => key_out.key1 # key_out.key2

\* C26: validate_mission leaves the registry, the temporal index and the
\* primary drone unchanged; the only engine state it may change is the
\* conflict cache, to which it adds at most one 'temporal' entry per candidate
\* and at most one 'spatial' entry per temporally overlapping candidate.
C26_ValidateFrame ==
    [][ (lastOp'.op = "validate" /\ opCount' = opCount + 1) =>
          LET P == lastOp'.drone
              candidates == relevant_drones(time_index, P)
              temporal == { temporal_key(P, simulated_drones[id]) : id \in candidates }
              spatial == { spatial_key(P, simulated_drones[id]) :
                             id \in { c \in candidates :
                                        WindowsOverlap(P, simulated_drones[c]) } }
          IN  /\ simulated_drones' = simulated_drones
              /\ time_index' = time_index
              /\ spatial_index' = spatial_index
              /\ P \in Drones
              /\ (DOMAIN conflict_cache' \ DOMAIN conflict_cache) \subseteq temporal \cup spatial
      ]_vars

\* a validation examined two candidates and wrote a temporal entry for each
\* and a spatial entry for the one whose window overlaps
C26_Witness ==
    /\ Validated
    /\ validations = 1
    /\ result.performance.temporal_checks = 2
    /\ result.performance.spatial_checks = 1
    /\ Cardinality(DOMAIN conflict_cache) = 3

\* C28: an add_simulated_drone that fails because the registry already holds
\* max_simulated_drones drones changes nothing: registry, temporal index and
\* conflict cache are the same before and after, and a validate_mission that
\* follows returns what it returns on that unchanged engine.
C28_RejectedAddChangesNothing ==
    [][ /\ ( /\ lastOp'.op = "add" /\ opCount' = opCount + 1
             /\ Cardinality(DOMAIN simulated_drones) >= max_simulated_drones ) =>
               /\ lastOp'.raised # "none"
               /\ simulated_drones' = simulated_drones
               /\ time_index' = time_index
               /\ spatial_index' = spatial_index
               /\ conflict_cache' = conflict_cache
        /\ ( /\ lastOp.op = "add" /\ lastOp.raised = "ValueError: maximum exceeded"
             /\ lastOp'.op = "validate" /\ lastOp'.raised = "none"
             /\ opCount' = opCount + 1 ) =>
               \E order \in Orders(relevant_drones(time_index, lastOp'.drone)) :
                  result' = validate_mission(safety_buffer, simulated_drones, time_index,
                                             conflict_cache, lastOp'.drone, order).results
      ]_vars

\* a validation that found a conflict directly after a rejected add
C28_Witness ==
    /\ Validated
    /\ opCount = 3
    /\ validations = 1
    /\ Cardinality(DOMAIN simulated_drones) = 1
    /\ max_simulated_drones = 1
    /\ result.status = "conflict"

\* C29: registry/index consistency.  In every reachable state every id stored
\* in a bucket of the temporal index is a key of simulated_drones, and every
\* key of simulated_drones maps to a drone whose id is that key.
C29_IndexWithinRegistry ==
    /\ \A time \in DOMAIN time_index :
          \A id \in Range(time_index[time]) : id \in DOMAIN simulated_drones
    /\ \A key \in DOMAIN simulated_drones : simulated_drones[key].id = key

\* two registered drones, one of them registered twice
C29_Witness ==
    /\ Cardinality(DOMAIN simulated_drones) = 2
    /\ \E time \in DOMAIN time_index :
          Len(time_index[time]) > Cardinality(Range(time_index[time]))

\* the timestamps are non-decreasing along the waypoint sequence
Chronological(d) ==
    \A i, j \in 1..Len(d.waypoints) :
        i < j => d.waypoints[i].timestamp <= d.waypoints[j].timestamp

\* C30: validate_trajectory returns true if and only if the waypoints'
\* timestamps are non-decreasing along the waypoint sequence, for every drone
\* object that can be constructed.
C30_ChronologyCheck ==
    traj_out.done => (traj_out.value <=> Chronological(traj_args))

\* C27: concurrent validation against a stable registry is safe.  When two
\* validate_mission calls for different primaries run with their steps
\* interleaved and no add_simulated_drone runs, each call returns the status
\* and the conflicts it returns when run alone on the same registry.
C27_ConcurrentValidationSafe ==
    \A t \in 1..2 :
        threads[t].pc = "done" =>
            \E order \in Orders(relevant_drones(time_index, threads[t].primary)) :
                LET alone == validate_mission(safety_buffer, simulated_drones, time_index,
                                              EmptyDict, threads[t].primary, order).results
                IN  /\ threads[t].results.status = alone.status
                    /\ ConflictSet(threads[t].results) = ConflictSet(alone)

====
